---- MODULE Spec2Model ----
(***************************************************************************)
(* Model of the android-intent builder chain (src/src/intent.rs).          *)
(*                                                                         *)
(* An Intent holds `inner: Result<Inner, Error>`.  Constructors and        *)
(* builder operations thread that Result through `and_then`; the terminal  *)
(* operations consume the Intent and hand the Result to the caller.  Every *)
(* JNI environment call the code makes is recorded, in order, in `log`,    *)
(* and may fail: either because the foreign runtime raises (chosen         *)
(* nondeterministically by `failAt`) or because the jni wrapper rejects    *)
(* the call's signature / argument list before reaching the runtime.       *)
(***************************************************************************)
EXTENDS Integers, Sequences, FiniteSets, TLC

VARIABLES
    inner,       \* Intent.inner: the chain state, or tag "Gone" once consumed
    pre,         \* history: the chain state on entry to the last operation
    ret,         \* what the last operation handed back to the caller
    lastOp,      \* the last operation and its integer argument
    log,         \* JNI environment calls issued by the last operation, in order
    ncalls,      \* total number of JNI environment calls issued so far
    ctx,         \* ndk_context::android_context() lookups of the last operation
    fail,        \* index in `log` of the call that returned Err, 0 if none did
    firstErr,    \* history: the first error raised in the current chain
    nops,        \* number of operations performed
    nextHandle,  \* next fresh foreign object handle
    outstanding, \* host: request codes registered and not yet completed
    results,     \* host: queue of completion records not yet fetched
    sit,         \* history: what the host held for the last get_result
    hostFlag,    \* host: value of Intent.FLAG_GRANT_READ_URI_PERMISSION
    launched,    \* history: number of start_activity_for_result invocations
    produced,    \* host: number of completion records produced so far
    fetched,     \* host: ids of the records getNextIntentResult handed out
    retired,     \* history: objects the current chain held and replaced
    attached,    \* whether the calling thread is attached to the Java VM
    wasAttached, \* history: whether it was attached before any get_env
    env,         \* Inner.env: the AttachGuard the chain holds, or "none"
    held,        \* AttachGuards the caller holds outside the chain, by kind
    twice,       \* history: two AttachGuards were live at the same time
    extras,      \* host: the string extras of each object, <<object, key, value>>
    lastPut,     \* history: the last successful with_extra per object and key
    prevExtra    \* history: what the last with_extra's key held before, or ""

vars == <<inner, pre, ret, lastOp, log, ncalls, ctx, fail, firstErr, nops,
          nextHandle, outstanding, results, sit, hostFlag, launched, produced,
          fetched, retired, attached, wasAttached, env, held, twice, extras,
          lastPut, prevExtra>>

(***************************************************************************)
(* Bounds and input domains                                                *)
(***************************************************************************)
MaxOps == 4
MaxFlagBits == 3

NullObject == 0
ActivityObject == 1

ActionNames == {"Send"}
UriTexts == {"content://x"}
ExtraKeys == {"text"}
ExtraValues == {"Hello World!", "Bye"}
TypeNames == {"text/plain"}
Titles == {"None", "Share"}
CategoryNames == {"Openable"}
RequestCodes == {42, 7}
ResultCodes == {-1}
FlagValues == 0..MaxFlagBits
HostFlagValues == {1, 3}

(***************************************************************************)
(* Symbolic name tables                                                    *)
(***************************************************************************)
ActionAsRef(a) ==
    CASE a = "Send" -> "ACTION_SEND"
      [] a = "Edit" -> "ACTION_EDIT"
      [] a = "Chooser" -> "ACTION_CHOOSER"
      [] a = "GetContent" -> "ACTION_GET_CONTENT"

CategoryAsRef(c) ==
    CASE c = "Openable" -> "CATEGORY_OPENABLE"

\* bitflags! { struct Flags: u32 { const GRANT_READ_URI_PERMISSION = 0b1; } }
FlagTable == << [name |-> "GRANT_READ_URI_PERMISSION", bits |-> 1] >>

RECURSIVE BitAnd(_, _)
BitAnd(a, b) ==
    IF a = 0 \/ b = 0 THEN 0
    ELSE (IF a % 2 = 1 /\ b % 2 = 1 THEN 1 ELSE 0) + 2 * BitAnd(a \div 2, b \div 2)

RECURSIVE BitOr(_, _)
BitOr(a, b) ==
    IF a = 0 THEN b
    ELSE IF b = 0 THEN a
    ELSE (IF a % 2 = 1 \/ b % 2 = 1 THEN 1 ELSE 0) + 2 * BitOr(a \div 2, b \div 2)

\* Flags::iter_names: the defined flags contained in the value, in
\* declaration order; bits that belong to no defined flag yield nothing.
RECURSIVE IterNamesFrom(_, _)
IterNamesFrom(flags, i) ==
    IF i > Len(FlagTable) THEN << >>
    ELSE (IF FlagTable[i].bits # 0 /\ BitAnd(flags, FlagTable[i].bits) = FlagTable[i].bits
          THEN << FlagTable[i].name >> ELSE << >>)
         \o IterNamesFrom(flags, i + 1)

iter_names(flags) == IterNamesFrom(flags, 1)

(***************************************************************************)
(* Values                                                                  *)
(***************************************************************************)
NoErr == [at |-> 0, fn |-> "", name |-> "", kind |-> ""]

OkInner(h) == [tag |-> "Ok", object |-> h, err |-> NoErr]
ErrInner(e) == [tag |-> "Err", object |-> NullObject, err |-> e]
Gone == [tag |-> "Gone", object |-> NullObject, err |-> NoErr]

RetIntent == [tag |-> "Intent", err |-> NoErr, val |-> "",
              request_code |-> 0, result_code |-> 0, data |-> Gone]
RetNothing == [tag |-> "Nothing", err |-> NoErr, val |-> "",
               request_code |-> 0, result_code |-> 0, data |-> Gone]
RetOkUnit == [tag |-> "Ok", err |-> NoErr, val |-> "()",
              request_code |-> 0, result_code |-> 0, data |-> Gone]
RetErr(e) == [tag |-> "Err", err |-> e, val |-> "",
              request_code |-> 0, result_code |-> 0, data |-> Gone]
RetOkNone == [tag |-> "Ok", err |-> NoErr, val |-> "None",
              request_code |-> 0, result_code |-> 0, data |-> Gone]

\* Intent::from_object
from_object(object) == OkInner(object)

\* CompletedIntent { request_code, result_code, data }
CompletedIntent(rq, rs, d) ==
    [tag |-> "Ok", err |-> NoErr, val |-> "Some",
     request_code |-> rq, result_code |-> rs, data |-> d]

(***************************************************************************)
(* JNI environment calls                                                   *)
(***************************************************************************)
\* One call on the JNI environment: the wrapper function, the class, member
\* or text it names, the signature as a sequence of descriptor tokens, the
\* receiver, and the arguments (kinds in order, then the values by kind).
Call(fn, name, sig, recv, argk, objs, ints) ==
    [fn |-> fn, name |-> name, sig |-> sig, recv |-> recv,
     argk |-> argk, objs |-> objs, ints |-> ints, strs |-> << >>]

\* The call `c` with the Java strings `strs` among its arguments.
WithStrings(c, strs) == [c EXCEPT !.strs = strs]

find_class(name) == Call("find_class", name, << >>, NullObject, << >>, << >>, << >>)
new_string(text) == Call("new_string", text, << >>, NullObject, << >>, << >>, << >>)
get_static_field(name, ty) ==
    Call("get_static_field", name, << ty >>, NullObject, << >>, << >>, << >>)
get_field(obj, name, ty) ==
    Call("get_field", name, << ty >>, obj, << >>, << >>, << >>)

StringSig == "Ljava/lang/String;"
IntentSig == "Landroid/content/Intent;"

\* The kind of JValue a descriptor token stands for.
TokKind(t) ==
    IF t \in {"Z", "B", "C", "D", "F", "I", "J", "S", "V"} THEN t ELSE "L"

RECURSIVE ParenAt(_, _)
ParenAt(sig, i) ==
    IF i > Len(sig) THEN 0 ELSE IF sig[i] = ")" THEN i ELSE ParenAt(sig, i + 1)

\* The argument descriptors of a method signature: the tokens between
\* "(" and ")".
SigArgs(sig) == SubSeq(sig, 2, ParenAt(sig, 1) - 1)

\* call_method / call_static_method / new_object parse the signature and
\* return Err(InvalidArgList) unless the arguments passed match it in
\* number and in base type; other wrapper functions take no argument list.
SigAccepted(c) ==
    c.fn \in {"call_method", "call_static_method", "new_object"} =>
        /\ Len(SigArgs(c.sig)) = Len(c.argk)
        /\ \A i \in 1..Len(c.argk) : TokKind(SigArgs(c.sig)[i]) = c.argk[i]

\* The error a wrapper function returns by itself, before it reaches the
\* foreign runtime: NullPtr for a null receiver, InvalidArgList for a
\* signature the arguments do not match; "" when the call goes through.
WrapperError(c) ==
    IF c.fn \in {"call_method", "get_field"} /\ c.recv = NullObject THEN "NullPtr"
    ELSE IF ~SigAccepted(c) THEN "InvalidArgList"
    ELSE ""

\* Intent::get_static_field_val
get_static_field_val(field_name, field_type) ==
    << find_class("android/content/Intent"),
       get_static_field(field_name, field_type) >>

\* The index of the first call of `plan` that returns Err: the failAt-th
\* raises in the foreign runtime, a call the wrapper rejects fails by
\* itself; 0 when every call succeeds.
RECURSIVE FirstFailFrom(_, _, _)
FirstFailFrom(plan, failAt, i) ==
    IF i > Len(plan) THEN 0
    ELSE IF i = failAt \/ WrapperError(plan[i]) # "" THEN i
    ELSE FirstFailFrom(plan, failAt, i + 1)

FirstFail(plan, failAt) == FirstFailFrom(plan, failAt, 1)

\* The `?` operator over a straight-line run of calls: the calls issued
\* (up to and including the failing one) and the error, if any.
Issued(plan, failAt) ==
    IF FirstFail(plan, failAt) = 0 THEN plan
    ELSE SubSeq(plan, 1, FirstFail(plan, failAt))

ErrorOf(plan, failAt, at) ==
    [at |-> at,
     fn |-> plan[FirstFail(plan, failAt)].fn,
     name |-> plan[FirstFail(plan, failAt)].name,
     kind |-> IF WrapperError(plan[FirstFail(plan, failAt)]) = ""
              THEN "JavaException"
              ELSE WrapperError(plan[FirstFail(plan, failAt)])]

\* A closure body that runs `plan` and, if no call fails, yields Inner
\* holding `object`.
RunPlan(plan, failAt, at, object) ==
    [inner |-> IF FirstFail(plan, failAt) = 0 THEN OkInner(object)
               ELSE ErrInner(ErrorOf(plan, failAt, at)),
     log |-> Issued(plan, failAt),
     fail |-> FirstFail(plan, failAt)]

(***************************************************************************)
(* The chain combinators                                                   *)
(***************************************************************************)
\* from_fn with the closure's error dropped: the Intent is built Ok around
\* a null object whatever f returned.
from_fn_swallow(f) ==
    IF f.inner.tag = "Err"
    THEN [inner |-> OkInner(NullObject), log |-> f.log, fail |-> f.fail]
    ELSE f

\* Intent::from_fn
from_fn(f) == f

\* and_then without the match on self.inner: the closure always runs.
and_then_eager(self, f_inner) == f_inner

\* Intent::and_then; `f_inner` is what the closure f yields when applied to
\* the Inner of self.
and_then(self, f_inner) ==
    IF self.tag = "Ok" THEN f_inner
    ELSE [inner |-> self, log |-> << >>, fail |-> 0]

(***************************************************************************)
(* Constructors and builder operations: the calls each closure makes       *)
(***************************************************************************)
new_plan(action) ==
    get_static_field_val(action, StringSig)
    \o << find_class("android/content/Intent"),
          Call("new_object", "android/content/Intent",
               << "(", StringSig, ")", "V" >>, NullObject, << "L" >>,
               << >>, << >>) >>

\* new_with_uri with the message object allocated before the URI is
\* parsed.
new_with_uri_plan_late(action, uri) ==
    get_static_field_val(action, StringSig)
    \o << find_class("android/content/Intent"),
          Call("new_object", "android/content/Intent",
               << "(", StringSig, "Landroid/net/Uri;", ")", "V" >>, NullObject,
               << "L", "L" >>, << >>, << >>),
          new_string(uri),
          find_class("android/net/Uri"),
          Call("call_static_method", "parse",
               << "(", StringSig, ")", "Landroid/net/Uri;" >>, NullObject,
               << "L" >>, << >>, << >>) >>

new_with_uri_plan(action, uri) ==
    << new_string(uri),
       find_class("android/net/Uri"),
       Call("call_static_method", "parse",
            << "(", StringSig, ")", "Landroid/net/Uri;" >>, NullObject,
            << "L" >>, << >>, << >>) >>
    \o get_static_field_val(action, StringSig)
    \o << find_class("android/content/Intent"),
          Call("new_object", "android/content/Intent",
               << "(", StringSig, "Landroid/net/Uri;", ")", "V" >>, NullObject,
               << "L", "L" >>, << >>, << >>) >>

\* with_extra passing the value where the key belongs.
with_extra_plan_swapped(in, key, value) ==
    << new_string(key),
       new_string(value),
       WithStrings(Call("call_method", "putExtra",
                        << "(", StringSig, StringSig, ")", IntentSig >>,
                        in.object, << "L", "L" >>, << >>, << >>),
                   << value, key >>) >>

with_extra_plan(in, key, value) ==
    << new_string(key),
       new_string(value),
       WithStrings(Call("call_method", "putExtra",
                        << "(", StringSig, StringSig, ")", IntentSig >>,
                        in.object, << "L", "L" >>, << >>, << >>),
                   << key, value >>) >>

into_chooser_plan(in, title) ==
    (IF title # "None" THEN << new_string(title) >> ELSE << >>)
    \o << find_class("android/content/Intent"),
          Call("call_static_method", "createChooser",
               << "(", IntentSig, "Ljava/lang/CharSequence;", ")", IntentSig >>,
               NullObject, << "L", "L" >>, << in.object >>, << >>) >>

with_type_plan(in, type_name) ==
    << new_string(type_name),
       Call("call_method", "setType",
            << "(", StringSig, ")", IntentSig >>, in.object,
            << "L" >>, << >>, << >>) >>

\* The loop of add_flags over flags.iter_names(): the constant lookups.
RECURSIVE FlagLookups(_, _)
FlagLookups(names, i) ==
    IF i > Len(names) THEN << >>
    ELSE get_static_field_val("FLAG_" \o names[i], "I")
         \o FlagLookups(names, i + 1)

\* The accumulator combined with `&=` instead of `|=`.
RECURSIVE FlagMaskAnd(_, _, _, _)
FlagMaskAnd(names, i, consts, acc) ==
    IF i > Len(names) THEN acc
    ELSE FlagMaskAnd(names, i + 1, consts, BitAnd(acc, consts["FLAG_" \o names[i]]))

\* jflags after the loop: `jflags |= jflag_val` for each looked-up value,
\* starting from `acc`.
RECURSIVE FlagMask(_, _, _, _)
FlagMask(names, i, consts, acc) ==
    IF i > Len(names) THEN acc
    ELSE FlagMask(names, i + 1, consts, BitOr(acc, consts["FLAG_" \o names[i]]))

\* add_flags with the mutation issued before the constants are resolved.
add_flags_plan_early(in, flags, consts) ==
    << Call("call_method", "addFlags",
            << "(", "I", ")", IntentSig >>, in.object,
            << "I" >>, << >>, << flags >>) >>
    \o FlagLookups(iter_names(flags), 1)

add_flags_plan(in, flags, consts) ==
    FlagLookups(iter_names(flags), 1)
    \o << Call("call_method", "addFlags",
               << "(", "I", ")", IntentSig >>, in.object,
               << "I" >>, << >>, << FlagMask(iter_names(flags), 1, consts, 0) >>) >>

add_category_plan(in, category) ==
    get_static_field_val(category, StringSig)
    \o << Call("call_method", "addCategory",
               << "(", StringSig, ")", IntentSig >>, in.object,
               << "L" >>, << >>, << >>) >>

(***************************************************************************)
(* Constructors and builder operations                                     *)
(***************************************************************************)
\* Intent::new; `object` is the handle new_object returns.
new(action, failAt, at, object) ==
    from_fn(RunPlan(new_plan(action), failAt, at, object))

\* Intent::new_with_uri
new_with_uri(action, uri, failAt, at, object) ==
    from_fn(RunPlan(new_with_uri_plan(action, uri), failAt, at, object))

\* Intent::with_extra
with_extra(self, key, value, failAt, at) ==
    and_then(self,
        RunPlan(with_extra_plan(self, key, value), failAt, at, self.object))

\* into_chooser_with_title keeping the wrapped Intent as inner.object.
into_chooser_with_title_keep(self, title, failAt, at, chooser) ==
    IF self.tag = "Ok"
    THEN RunPlan(into_chooser_plan(self, title), failAt, at, self.object)
    ELSE [inner |-> self, log |-> << >>, fail |-> 0]

\* Intent::into_chooser_with_title; inner.object becomes `chooser`, the
\* object createChooser returns ("None" stands for a title of None).
into_chooser_with_title(self, title, failAt, at, chooser) ==
    and_then(self,
        RunPlan(into_chooser_plan(self, title), failAt, at, chooser))

\* Intent::into_chooser
into_chooser(self, failAt, at, chooser) ==
    into_chooser_with_title(self, "None", failAt, at, chooser)

\* with_type yielding an Inner around another object.
with_type_rebind(self, type_name, failAt, at) ==
    IF self.tag = "Ok"
    THEN RunPlan(with_type_plan(self, type_name), failAt, at, NullObject)
    ELSE [inner |-> self, log |-> << >>, fail |-> 0]

\* Intent::with_type
with_type(self, type_name, failAt, at) ==
    and_then(self,
        RunPlan(with_type_plan(self, type_name), failAt, at, self.object))

\* Intent::add_flags
add_flags(self, flags, consts, failAt, at) ==
    and_then(self,
        RunPlan(add_flags_plan(self, flags, consts), failAt, at, self.object))

\* Intent::add_category
add_category(self, category, failAt, at) ==
    and_then(self,
        RunPlan(add_category_plan(self, category), failAt, at, self.object))

(***************************************************************************)
(* Terminal operations                                                     *)
(***************************************************************************)
\* Each terminal operation calls ndk_context::android_context() once, on
\* entry, before it looks at self.inner.
android_context == 1

\* Result::and_then on self.inner, as the terminal operations use it;
\* `f_inner` is what the closure yields when applied to the Inner of self.
result_and_then(self, f_inner) ==
    IF self.tag = "Ok" THEN f_inner
    ELSE [ret |-> RetErr(self.err), log |-> << >>, fail |-> 0]

\* startActivity handed the activity itself instead of the chain's handle.
start_activity_plan_wrong(in) ==
    << Call("call_method", "startActivity",
            << "(", IntentSig, ")", "V" >>, ActivityObject,
            << "L" >>, << ActivityObject >>, << >>) >>

start_activity_plan(in) ==
    << Call("call_method", "startActivity",
            << "(", IntentSig, ")", "V" >>, ActivityObject,
            << "L" >>, << in.object >>, << >>) >>

\* start_activity_for_result passing a request code of its own.
start_activity_for_result_plan_recode(in, request_code) ==
    << Call("call_method", "startActivityForResult",
            << "(", IntentSig, "I", ")", "V" >>,
            ActivityObject, << "L", "I" >>, << in.object >>, << 0 >>) >>

\* start_activity_for_result asking the host twice.
start_activity_for_result_plan_twice(in, request_code) ==
    << Call("call_method", "startActivityForResult",
            << "(", IntentSig, "I", ")", "V" >>,
            ActivityObject, << "L", "I" >>, << in.object >>, << request_code >>),
       Call("call_method", "startActivityForResult",
            << "(", IntentSig, "I", ")", "V" >>,
            ActivityObject, << "L", "I" >>, << in.object >>, << request_code >>) >>

start_activity_for_result_plan(in, request_code) ==
    << Call("call_method", "startActivityForResult",
            << "(", IntentSig, "I", ")", "V" >>, ActivityObject,
            << "L", "I" >>, << in.object >>, << request_code >>) >>

\* A closure body that runs `plan` and yields Ok(()) if no call fails.
RunCall(plan, failAt, at) ==
    [ret |-> IF FirstFail(plan, failAt) = 0 THEN RetOkUnit
             ELSE RetErr(ErrorOf(plan, failAt, at)),
     log |-> Issued(plan, failAt),
     fail |-> FirstFail(plan, failAt)]

\* start_activity with a failed chain's error dropped.
start_activity_swallow(self, failAt, at) ==
    IF self.tag = "Ok" THEN RunCall(start_activity_plan(self), failAt, at)
    ELSE [ret |-> RetOkUnit, log |-> << >>, fail |-> 0]

\* Intent::start_activity
start_activity(self, failAt, at) ==
    result_and_then(self,
        RunCall(start_activity_plan(self), failAt, at))

\* Intent::start_activity_for_result
start_activity_for_result(self, request_code, failAt, at) ==
    result_and_then(self,
        RunCall(start_activity_for_result_plan(self, request_code), failAt, at))

\* Host: what getNextIntentResult has to hand out: the head of the queue
\* of completion records behind the reference `fresh`, or a null reference
\* when no record is pending.
NextRecord(queue, fresh) ==
    IF queue = << >>
    THEN [state |-> "none", requestCode |-> 0, resultCode |-> 0,
          data |-> NullObject, ref |-> NullObject, id |-> 0]
    ELSE [state |-> IF Head(queue).data = NullObject THEN "null" ELSE "data",
          requestCode |-> Head(queue).requestCode,
          resultCode |-> Head(queue).resultCode,
          data |-> Head(queue).data, ref |-> fresh, id |-> Head(queue).id]

get_result_plan(rec) ==
    << Call("call_method", "getNextIntentResult",
            << "(", "V", ")", "Lcom/example/libnumistracker/RustNativeIntentResult;" >>,
            ActivityObject, << >>, << >>, << >>),
       get_field(rec.ref, "requestCode", "I"),
       get_field(rec.ref, "resultCode", "I"),
       get_field(rec.ref, "data", IntentSig) >>

\* get_result asking the host before it looks at the chain state.
get_result_eager(self, rec, failAt, at) ==
    [ret |-> IF self.tag = "Err" THEN RetErr(self.err)
             ELSE IF FirstFail(get_result_plan(rec), failAt) # 0
             THEN RetErr(ErrorOf(get_result_plan(rec), failAt, at))
             ELSE IF rec.data = NullObject THEN RetOkNone
             ELSE CompletedIntent(rec.requestCode, rec.resultCode,
                                  from_object(rec.data)),
     log |-> Issued(get_result_plan(rec), failAt),
     fail |-> FirstFail(get_result_plan(rec), failAt)]

\* Intent::get_result; `rec` is what the host hands out if asked.
get_result(self, rec, failAt, at) ==
    result_and_then(self,
        [ret |-> IF FirstFail(get_result_plan(rec), failAt) # 0
                 THEN RetErr(ErrorOf(get_result_plan(rec), failAt, at))
                 ELSE IF rec.data = NullObject THEN RetOkNone
                 ELSE CompletedIntent(rec.requestCode, rec.resultCode,
                                      from_object(rec.data)),
         log |-> Issued(get_result_plan(rec), failAt),
         fail |-> FirstFail(get_result_plan(rec), failAt)])

\* Whether a call of `out.log` named `name` reached the host and returned.
Returned(out, name) ==
    \E i \in 1..Len(out.log) : out.log[i].name = name /\ out.fail # i

\* Host: one entry per call of `out.log` named `name` that reached the host
\* and returned, each registering `request_code`.
Registrations(out, name, request_code) ==
    [j \in 1..Cardinality({i \in 1..Len(out.log) :
                              out.log[i].name = name /\ out.fail # i})
        |-> request_code]

(***************************************************************************)
(* Actions                                                                 *)
(***************************************************************************)
\* get_env handing out a guard that detaches whenever it is dropped.
get_env_detaching(att) == "owner"

\* IntentEnv::get_env: JavaVM::attach_current_thread attaches the thread
\* if it is not attached; only the guard that attached it ("owner")
\* detaches it when dropped, a guard taken on an attached thread is
\* "nested".
get_env(att) == IF att THEN "nested" ELSE "owner"

\* Dropping an AttachGuard of kind `guard` on a thread whose attachment is
\* `att`.
DropGuard(guard, att) == IF guard = "owner" THEN FALSE ELSE att

NoGuards == [owner |-> 0, nested |-> 0]

\* A map of string extras with `value` stored under `key` of `object`,
\* replacing what was stored there.
Put(map, object, key, value) ==
    {t \in map : ~(t[1] = object /\ t[2] = key)} \cup {<<object, key, value>>}

\* What `map` holds under `key` of `object`, "" if nothing.
Held(map, object, key) ==
    IF \E t \in map : t[1] = object /\ t[2] = key
    THEN (CHOOSE t \in map : t[1] = object /\ t[2] = key)[3]
    ELSE ""

\* Host: the extras after the putExtra calls among `calls[i..]` that
\* reached the host and returned, applied in order.
RECURSIVE ApplyPuts(_, _, _, _)
ApplyPuts(map, calls, failed, i) ==
    IF i > Len(calls) THEN map
    ELSE IF calls[i].name = "putExtra" /\ failed # i
    THEN ApplyPuts(Put(map, calls[i].recv, calls[i].strs[1], calls[i].strs[2]),
                   calls, failed, i + 1)
    ELSE ApplyPuts(map, calls, failed, i + 1)

Min(S) == CHOOSE x \in S : \A y \in S : x <= y

\* Host: the static int fields of android.content.Intent the code reads.
HostConstants == [n \in {"FLAG_GRANT_READ_URI_PERMISSION"} |-> hostFlag]

NoRecordSeen == NextRecord(<< >>, NullObject)

InitChain ==
    /\ inner = Gone
    /\ pre = Gone
    /\ ret = RetNothing
    /\ lastOp = [op |-> "init", n |-> 0]
    /\ log = << >>
    /\ ncalls = 0
    /\ ctx = 0
    /\ fail = 0
    /\ firstErr = NoErr
    /\ nextHandle = ActivityObject + 1
    /\ outstanding = << >>
    /\ results = << >>
    /\ sit = NoRecordSeen
    /\ launched = 0
    /\ produced = 0
    /\ fetched = << >>
    /\ retired = {}
    /\ extras = {}
    /\ lastPut = {}
    /\ prevExtra = ""
    /\ env = "none"
    /\ held = NoGuards
    /\ twice = FALSE

\* The chain runs on a native thread that is not attached beforehand.
Init ==
    /\ InitChain
    /\ nops = 0
    /\ hostFlag \in HostFlagValues
    /\ wasAttached = FALSE
    /\ attached = FALSE

\* The caller has built an IntentEnv, its first operation; the thread may
\* or may not be attached beforehand.
InitEnv ==
    /\ InitChain
    /\ nops = 1
    /\ hostFlag = Min(HostFlagValues)
    /\ wasAttached \in BOOLEAN
    /\ attached = wasAttached

\* Bookkeeping shared by every constructor and builder operation: `out` is
\* the operation's outcome, `first` the first error of the chain on entry.
\* A handle the chain takes is no longer fresh.  `put` and `prev` are the
\* history of with_extra after the operation.
StepPut(op, n, out, first, put, prev) ==
    /\ pre' = inner
    /\ inner' = out.inner
    /\ ret' = RetIntent
    /\ lastOp' = [op |-> op, n |-> n]
    /\ log' = out.log
    /\ fail' = out.fail
    /\ ncalls' = ncalls + Len(out.log)
    /\ ctx' = 0
    /\ firstErr' = IF first = NoErr /\ out.inner.tag = "Err"
                   THEN out.inner.err ELSE first
    /\ nops' = nops + 1
    /\ nextHandle' = IF out.inner.tag = "Ok" /\ out.inner.object >= nextHandle
                     THEN out.inner.object + 1 ELSE nextHandle
    /\ retired' = IF inner.tag = "Gone" THEN {}
                  ELSE IF out.inner.tag = "Ok" /\ out.inner.object # inner.object
                  THEN retired \cup {inner.object}
                  ELSE retired
    /\ env' = IF out.inner.tag # "Ok" THEN "none"
              ELSE IF inner.tag = "Gone" THEN get_env(attached) ELSE env
    /\ attached' = IF inner.tag = "Gone"
                   THEN (IF out.inner.tag = "Ok" THEN TRUE
                         ELSE DropGuard(get_env(attached), TRUE))
                   ELSE IF inner.tag = "Ok" /\ out.inner.tag # "Ok"
                   THEN DropGuard(env, attached)
                   ELSE attached
    /\ twice' = (twice \/ (inner.tag = "Gone" /\ held # NoGuards))
    /\ extras' = ApplyPuts(extras, out.log, out.fail, 1)
    /\ lastPut' = put
    /\ prevExtra' = prev
    /\ UNCHANGED <<outstanding, results, sit, hostFlag, launched, produced,
                   fetched, wasAttached, held>>

Step(op, n, out, first) == StepPut(op, n, out, first, lastPut, prevExtra)

\* Bookkeeping shared by the terminal operations, which look up the host
\* context first and consume the Intent: `out` is the operation's outcome.
Finish(op, n, out) ==
    /\ pre' = inner
    /\ inner' = Gone
    /\ ret' = out.ret
    /\ lastOp' = [op |-> op, n |-> n]
    /\ log' = out.log
    /\ fail' = out.fail
    /\ ncalls' = ncalls + Len(out.log)
    /\ ctx' = android_context
    /\ firstErr' = IF firstErr = NoErr /\ out.ret.tag = "Err"
                   THEN out.ret.err ELSE firstErr
    /\ nops' = nops + 1
    /\ env' = "none"
    /\ attached' = IF inner.tag = "Ok" /\ out.ret.val # "Some"
                   THEN DropGuard(env, attached) ELSE attached
    /\ held' = IF inner.tag = "Ok" /\ out.ret.val = "Some"
               THEN [held EXCEPT ![env] = @ + 1] ELSE held
    /\ UNCHANGED <<hostFlag, produced, retired, wasAttached, twice, extras,
                   lastPut, prevExtra>>

Live == inner.tag \in {"Ok", "Err"} /\ nops < MaxOps

\* The caller wraps a non-null object of its own: one the host produced
\* earlier or one not seen before.
FromObject ==
    /\ inner.tag = "Gone"
    /\ nops < MaxOps
    /\ \E object \in (ActivityObject + 1)..nextHandle :
          Step("from_object", 0,
               [inner |-> from_object(object), log |-> << >>, fail |-> 0],
               NoErr)

New ==
    /\ inner.tag = "Gone"
    /\ nops < MaxOps
    /\ \E action \in ActionNames :
       \E failAt \in 0..Len(new_plan(ActionAsRef(action))) :
          Step("new", 0,
               new(ActionAsRef(action), failAt, nops + 1, nextHandle),
               NoErr)

NewWithUri ==
    /\ inner.tag = "Gone"
    /\ nops < MaxOps
    /\ \E action \in ActionNames, uri \in UriTexts :
       \E failAt \in 0..Len(new_with_uri_plan(ActionAsRef(action), uri)) :
          Step("new_with_uri", 0,
               new_with_uri(ActionAsRef(action), uri, failAt, nops + 1, nextHandle),
               NoErr)

WithExtra ==
    /\ Live
    /\ \E key \in ExtraKeys, value \in ExtraValues :
       \E failAt \in 0..Len(with_extra_plan(inner, key, value)) :
          StepPut("with_extra", 0,
                  with_extra(inner, key, value, failAt, nops + 1),
                  firstErr,
                  IF with_extra(inner, key, value, failAt, nops + 1).inner.tag = "Ok"
                  THEN Put(lastPut, inner.object, key, value) ELSE lastPut,
                  IF inner.tag = "Ok" THEN Held(lastPut, inner.object, key)
                  ELSE "")

IntoChooser ==
    /\ Live
    /\ \E failAt \in 0..Len(into_chooser_plan(inner, "None")) :
          Step("into_chooser", 0,
               into_chooser(inner, failAt, nops + 1, nextHandle),
               firstErr)

IntoChooserWithTitle ==
    /\ Live
    /\ \E title \in Titles :
       \E failAt \in 0..Len(into_chooser_plan(inner, title)) :
          Step("into_chooser_with_title", 0,
               into_chooser_with_title(inner, title, failAt, nops + 1, nextHandle),
               firstErr)

WithType ==
    /\ Live
    /\ \E type_name \in TypeNames :
       \E failAt \in 0..Len(with_type_plan(inner, type_name)) :
          Step("with_type", 0,
               with_type(inner, type_name, failAt, nops + 1),
               firstErr)

AddFlags ==
    /\ Live
    /\ \E flags \in FlagValues :
       \E failAt \in 0..Len(add_flags_plan(inner, flags, HostConstants)) :
          Step("add_flags", flags,
               add_flags(inner, flags, HostConstants, failAt, nops + 1),
               firstErr)

AddCategory ==
    /\ Live
    /\ \E category \in CategoryNames :
       \E failAt \in 0..Len(add_category_plan(inner, CategoryAsRef(category))) :
          Step("add_category", 0,
               add_category(inner, CategoryAsRef(category), failAt, nops + 1),
               firstErr)

StartActivity ==
    /\ Live
    /\ \E failAt \in 0..Len(start_activity_plan(inner)) :
          /\ Finish("start_activity", 0, start_activity(inner, failAt, nops + 1))
          /\ UNCHANGED <<nextHandle, outstanding, results, sit, launched,
                         fetched>>

\* The host registers the request code of each startActivityForResult call
\* that reached it and returned normally.
StartActivityForResult ==
    /\ Live
    /\ \E request_code \in RequestCodes :
       \E failAt \in 0..Len(start_activity_for_result_plan(inner, request_code)) :
          /\ Finish("start_activity_for_result", request_code,
                    start_activity_for_result(inner, request_code, failAt, nops + 1))
          /\ outstanding' =
                outstanding \o
                Registrations(start_activity_for_result(inner, request_code,
                                                        failAt, nops + 1),
                              "startActivityForResult", request_code)
          /\ launched' = launched + 1
          /\ UNCHANGED <<nextHandle, results, sit, fetched>>

\* The host hands out the head of its queue, and drops it, when the
\* getNextIntentResult call reaches it and returns.
GetResult ==
    /\ Live
    /\ \E failAt \in 0..Len(get_result_plan(NextRecord(results, nextHandle))) :
          /\ Finish("get_result", 0,
                    get_result(inner, NextRecord(results, nextHandle), failAt,
                               nops + 1))
          /\ results' =
                IF Returned(get_result(inner, NextRecord(results, nextHandle),
                                       failAt, nops + 1),
                            "getNextIntentResult") /\ results # << >>
                THEN Tail(results) ELSE results
          /\ fetched' =
                IF Returned(get_result(inner, NextRecord(results, nextHandle),
                                       failAt, nops + 1),
                            "getNextIntentResult") /\ results # << >>
                THEN Append(fetched, Head(results).id) ELSE fetched
          /\ sit' = NextRecord(results, nextHandle)
          /\ UNCHANGED <<nextHandle, outstanding, launched>>

\* The host completes an outstanding request: it queues one completion
\* record carrying the request's code, a result code and data or null.
HostComplete ==
    /\ outstanding # << >>
    /\ \E i \in 1..Len(outstanding), result_code \in ResultCodes,
          hasData \in BOOLEAN :
          /\ results' = Append(results,
                [requestCode |-> outstanding[i], resultCode |-> result_code,
                 data |-> IF hasData THEN nextHandle ELSE NullObject,
                 id |-> produced + 1])
          /\ produced' = produced + 1
          /\ outstanding' = [j \in 1..(Len(outstanding) - 1) |->
                                IF j < i THEN outstanding[j] ELSE outstanding[j + 1]]
          /\ nextHandle' = IF hasData THEN nextHandle + 1 ELSE nextHandle
    /\ UNCHANGED <<inner, pre, ret, lastOp, log, ncalls, ctx, fail, firstErr,
                   nops, sit, hostFlag, launched, fetched, retired, attached,
                   wasAttached, env, held, twice, extras, lastPut, prevExtra>>

\* The caller takes one more AttachGuard, from an IntentEnv of its own.
GetEnv ==
    /\ nops < MaxOps
    /\ held' = [held EXCEPT ![get_env(attached)] = @ + 1]
    /\ attached' = TRUE
    /\ twice' = (twice \/ env # "none" \/ held # NoGuards)
    /\ nops' = nops + 1
    /\ UNCHANGED <<inner, pre, ret, lastOp, log, ncalls, ctx, fail, firstErr,
                   nextHandle, outstanding, results, sit, hostFlag, launched,
                   produced, fetched, retired, wasAttached, env, extras,
                   lastPut, prevExtra>>

\* The caller drops one of the AttachGuards it holds.
DropEnv ==
    /\ \E guard \in {"owner", "nested"} :
          /\ held[guard] > 0
          /\ held' = [held EXCEPT ![guard] = @ - 1]
          /\ attached' = DropGuard(guard, attached)
    /\ UNCHANGED <<inner, pre, ret, lastOp, log, ncalls, ctx, fail, firstErr,
                   nops, nextHandle, outstanding, results, sit, hostFlag,
                   launched, produced, fetched, retired, wasAttached, env,
                   twice, extras, lastPut, prevExtra>>

Next ==
    \/ FromObject
    \/ New
    \/ NewWithUri
    \/ WithExtra
    \/ IntoChooser
    \/ IntoChooserWithTitle
    \/ WithType
    \/ AddFlags
    \/ AddCategory
    \/ StartActivity
    \/ StartActivityForResult
    \/ GetResult
    \/ HostComplete

Spec == Init /\ [][Next]_vars

\* The chain together with AttachGuards the caller takes and drops itself.
NextEnv ==
    \/ Next
    \/ GetEnv
    \/ DropEnv

SpecEnv == InitEnv /\ [][NextEnv]_vars

(***************************************************************************)
(* Properties                                                              *)
(***************************************************************************)
BuilderOps == {"with_extra", "with_type", "add_flags", "add_category",
               "into_chooser", "into_chooser_with_title"}
TerminalOps == {"start_activity", "start_activity_for_result", "get_result"}

NamesIn(calls, names) == {i \in 1..Len(calls) : calls[i].name \in names}
FnsIn(calls, fns) == {i \in 1..Len(calls) : calls[i].fn \in fns}

\* C1: once the chain is Err(E), every builder operation leaves it equal to
\* the same Err(E) and issues no foreign call: the call counter, the log of
\* the operation and its context lookups show none.
C1_ErrorIsSticky ==
    [][(inner.tag = "Err" /\ lastOp'.op \in BuilderOps /\ nops' = nops + 1)
          => (inner' = inner /\ ncalls' = ncalls /\ log' = << >> /\ ctx' = 0)]_vars

C1_Witness ==
    /\ lastOp.op \in BuilderOps
    /\ pre.tag = "Err"
    /\ inner = pre
    /\ log = << >>
    /\ pre.err.at + 1 < nops

\* C2: errors are never dropped: a failed chain carries the first error
\* raised in it, and a terminal operation of a chain in which a step failed
\* returns Err with exactly that first error.
C2_FirstErrorSurfaces ==
    /\ inner.tag = "Err" => inner.err = firstErr
    /\ (lastOp.op \in TerminalOps /\ firstErr # NoErr)
          => (ret.tag = "Err" /\ ret.err = firstErr)

C2_Witness ==
    /\ lastOp.op \in TerminalOps
    /\ pre.tag = "Err"
    /\ ret = RetErr(firstErr)
    /\ firstErr.at + 1 < nops

\* C3: start_activity on Ok(h) issues exactly one startActivity call on the
\* activity with h as its argument and returns Ok exactly when that call
\* does not fail; on Err it returns the chain's error and issues no call.
C3_StartActivityOnce ==
    lastOp.op = "start_activity" =>
        /\ pre.tag = "Ok" =>
              /\ Len(log) = 1
              /\ log[1].fn = "call_method"
              /\ log[1].name = "startActivity"
              /\ log[1].recv = ActivityObject
              /\ log[1].objs = << pre.object >>
              /\ (ret = RetOkUnit) <=> (fail = 0)
              /\ (ret.tag = "Err") <=> (fail = 1)
        /\ pre.tag = "Err" =>
              /\ ret = RetErr(pre.err)
              /\ NamesIn(log, {"startActivity"}) = {}

C3_Witness ==
    /\ lastOp.op = "start_activity"
    /\ pre.tag = "Ok"
    /\ pre.object # NullObject
    /\ ret = RetOkUnit
    /\ Len(log) = 1

\* C4 as claimed: an operation on a failed chain attempts no foreign call
\* and does not even look up the host context.
C4_Original ==
    (lastOp.op \in BuilderOps \cup TerminalOps /\ pre.tag = "Err")
        => (log = << >> /\ ctx = 0)

\* C4 as amended: an operation on a failed chain issues no JNI environment
\* call; a terminal operation still looks up the host context once, a
\* builder operation does not.
C4_NoJniCallAfterError ==
    (lastOp.op \in BuilderOps \cup TerminalOps /\ pre.tag = "Err")
        => /\ log = << >>
           /\ fail = 0
           /\ ctx = IF lastOp.op \in TerminalOps THEN 1 ELSE 0

C4_Witness ==
    /\ lastOp.op = "get_result"
    /\ pre.tag = "Err"
    /\ log = << >>
    /\ ctx = 1

\* The last operation was add_flags on an Ok chain and one of its constant
\* lookups (find_class, get_static_field) returned Err.
FlagLookupFailed ==
    /\ lastOp.op = "add_flags"
    /\ pre.tag = "Ok"
    /\ fail > 0
    /\ log[fail].fn \in {"find_class", "get_static_field"}

\* The flag set has a bit outside GRANT_READ_URI_PERMISSION = 0b1, the only
\* flag the Flags type defines: a bit for which no constant can be resolved.
HasUndefinedBit(flags) == flags \div 2 > 0

RECURSIVE PopCount(_)
PopCount(n) == IF n = 0 THEN 0 ELSE (n % 2) + PopCount(n \div 2)

\* The last operation was add_flags on an Ok chain and every constant
\* lookup it made succeeded.
FlagLookupsSucceeded ==
    /\ lastOp.op = "add_flags"
    /\ pre.tag = "Ok"
    /\ fail = 0 \/ log[fail].name = "addFlags"

UriParseFailed ==
    /\ lastOp.op = "new_with_uri"
    /\ fail > 0
    /\ log[fail].name = "parse"

\* C7: new_with_uri whose URI parse fails ends in Err with no new_object
\* call issued, and the parse call precedes every action lookup and every
\* allocation.
C7_ParseBeforeAllocation ==
    lastOp.op = "new_with_uri" =>
        /\ UriParseFailed =>
              /\ inner.tag = "Err"
              /\ FnsIn(log, {"new_object"}) = {}
        /\ \A i \in NamesIn(log, {"parse"}) :
           \A j \in FnsIn(log, {"get_static_field", "new_object"}) : i < j
        /\ FnsIn(log, {"new_object"}) # {} => NamesIn(log, {"parse"}) # {}

C7_Witness ==
    /\ UriParseFailed
    /\ inner.tag = "Err"
    /\ Len(log) = 3

\* C8 as claimed: a URI parse failure is returned to the caller by
\* new_with_uri itself.
C8_Original ==
    UriParseFailed => ret.tag = "Err"

\* C8 as amended: a URI parse failure is recorded in the chain state by
\* new_with_uri itself, which returns an Intent and no error; the caller
\* receives the error from the terminal operation of the chain.
C8_RecordedThenSurfaced ==
    /\ UriParseFailed =>
          /\ inner.tag = "Err"
          /\ inner.err.name = "parse"
          /\ inner.err.at = nops
          /\ ret = RetIntent
    /\ (lastOp.op \in TerminalOps /\ firstErr.name = "parse")
          => ret = RetErr(firstErr)

C8_Witness ==
    /\ lastOp.op \in TerminalOps
    /\ ret.tag = "Err"
    /\ ret.err.name = "parse"
    /\ ret.err.at < nops

\* The last operation was get_result on an Ok chain and no call it made
\* raised in the foreign runtime.
PollRan ==
    /\ lastOp.op = "get_result"
    /\ pre.tag = "Ok"
    /\ ~(ret.tag = "Err" /\ ret.err.kind = "JavaException")

\* C9: get_result tells the three host situations apart: a record with null
\* data yields Ok(None), a record with data yields Ok(Some(..)), and no
\* record yields neither.
C9_ThreeOutcomes ==
    PollRan =>
        /\ sit.state = "null" => ret = RetOkNone
        /\ sit.state = "data" => (ret.tag = "Ok" /\ ret.val = "Some")
        /\ sit.state = "none" => ~(ret.tag = "Ok")

\* C10: get_result on a completion record with data returns
\* Ok(Some(CompletedIntent)) carrying the record's request code (the code
\* the request was dispatched with), its result code, and its data handle
\* wrapped in an Ok Intent.
C10_CompletedIntentMatches ==
    (PollRan /\ sit.state = "data") =>
        ret = CompletedIntent(sit.requestCode, sit.resultCode,
                              from_object(sit.data))

ChooserOps == {"into_chooser", "into_chooser_with_title"}

\* The foreign objects a JNI call is given, as receiver or as argument.
HandlesOf(call) == {call.recv} \cup {call.objs[k] : k \in 1..Len(call.objs)}

ChooserWrapped ==
    lastOp.op \in ChooserOps /\ pre.tag = "Ok" /\ inner.tag = "Ok"

\* C12: the chain holds one object at a time.  After a successful
\* into_chooser / into_chooser_with_title the chain holds the object
\* createChooser returned, not the one it wrapped, and an object the chain
\* has replaced is never the receiver or an argument of a call of a later
\* builder or terminal operation.
C12_PriorHandleNeverReused ==
    /\ inner.tag = "Ok" => inner.object \notin retired
    /\ ChooserWrapped =>
          /\ inner.object # pre.object
          /\ pre.object \in retired
          /\ log[Len(log)].name = "createChooser"
          /\ log[Len(log)].objs = << pre.object >>
    /\ lastOp.op \in BuilderOps \cup TerminalOps =>
          \A i \in 1..Len(log) :
             HandlesOf(log[i]) \cap retired
                \subseteq (IF ChooserWrapped THEN {pre.object} ELSE {})

\* An operation after a successful chooser wrap issued its calls on the
\* chooser object.
C12_Witness ==
    /\ retired # {}
    /\ lastOp.op \in (BuilderOps \cup TerminalOps) \ ChooserOps
    /\ pre.tag = "Ok"
    /\ pre.object \notin retired
    /\ fail = 0
    /\ \E i \in 1..Len(log) : pre.object \in HandlesOf(log[i])

AllReleased == env = "none" /\ held = NoGuards

\* C13: thread attachment is scoped.  Once the chain's AttachGuard and
\* every AttachGuard the caller took are dropped, the thread is attached
\* exactly if it was attached before the first get_env; a thread attached
\* beforehand is never detached, however many guards are taken and in
\* whatever order they are dropped, and at most one live guard detaches.
C13_AttachmentIsScoped ==
    /\ AllReleased => attached = wasAttached
    /\ wasAttached => attached
    /\ held.owner + (IF env = "owner" THEN 1 ELSE 0) <= 1
    /\ (held.owner > 0 \/ env = "owner") => (attached /\ ~wasAttached)

\* On a thread not attached beforehand two guards were live at once, a
\* chain ran to its terminal operation, and every guard has been dropped.
C13_Witness ==
    /\ AllReleased
    /\ twice
    /\ ~wasAttached
    /\ lastOp.op \in TerminalOps
    /\ pre.tag = "Ok"

\* C14: start_activity_for_result enforces no uniqueness of request codes.
\* On an Ok chain it issues exactly one startActivityForResult call on the
\* activity, carrying the chain's object and the caller's request code
\* unchanged, whatever codes are outstanding; only the host can make it
\* fail, and when the call returns the result is Ok(()).
C14_RequestCodePassedUnchanged ==
    (lastOp.op = "start_activity_for_result" /\ pre.tag = "Ok") =>
        /\ Len(log) = 1
        /\ log[1].fn = "call_method"
        /\ log[1].name = "startActivityForResult"
        /\ log[1].recv = ActivityObject
        /\ log[1].objs = << pre.object >>
        /\ log[1].ints = << lastOp.n >>
        /\ fail = 0 => ret = RetOkUnit
        /\ fail # 0 => (ret.tag = "Err" /\ ret.err.kind = "JavaException")

\* A request code equal to that of a request still outstanding was passed
\* on and registered a second time.
C14_Witness ==
    /\ lastOp.op = "start_activity_for_result"
    /\ pre.tag = "Ok"
    /\ fail = 0
    /\ ret = RetOkUnit
    /\ \E i, j \in 1..Len(outstanding) :
          i < j /\ outstanding[i] = lastOp.n /\ outstanding[j] = lastOp.n

\* C15: with_extra issues one putExtra call per invocation, on the chain's
\* object, with the invocation's key and value; the host therefore holds,
\* for every object and key, the value of the last successful with_extra
\* (last write wins), and a with_extra fails only if the host raises,
\* whatever the key held before.
C15_LastWriteWins ==
    /\ extras = lastPut
    /\ (lastOp.op = "with_extra" /\ pre.tag = "Ok") =>
          /\ Cardinality(NamesIn(log, {"putExtra"})) = (IF fail \in {1, 2} THEN 0 ELSE 1)
          /\ Len(log) = 3 =>
                /\ log[1].fn = "new_string"
                /\ log[2].fn = "new_string"
                /\ log[3].name = "putExtra"
                /\ log[3].recv = pre.object
                /\ log[3].strs = << log[1].name, log[2].name >>
          /\ fail = 0 =>
                /\ inner = pre
                /\ Held(extras, pre.object, log[1].name) = log[2].name
          /\ fail # 0 => (inner.tag = "Err" /\ inner.err.kind = "JavaException")

\* A with_extra succeeded on a key that held a different value before, and
\* the host holds the new value.
C15_Witness ==
    /\ lastOp.op = "with_extra"
    /\ pre.tag = "Ok"
    /\ fail = 0
    /\ prevExtra \notin {"", log[2].name}
    /\ Held(extras, pre.object, log[1].name) = log[2].name

FrameOps == {"with_extra", "with_type", "add_flags", "add_category"}

\* C16: a successful with_extra, with_type, add_flags or add_category leaves
\* the chain's object and its AttachGuard (and the thread's attachment) as
\* they were; a successful into_chooser / into_chooser_with_title keeps the
\* AttachGuard and is the only builder operation after which the chain
\* holds another object.
C16_HandleFrame ==
    [][(nops' = nops + 1 /\ lastOp'.op \in BuilderOps
        /\ inner.tag = "Ok" /\ inner'.tag = "Ok")
          => /\ env' = env
             /\ attached' = attached
             /\ lastOp'.op \in FrameOps => inner'.object = inner.object
             /\ inner'.object # inner.object => lastOp'.op \in ChooserOps]_vars

\* A successful add_category left the object in place on a chain that
\* holds its AttachGuard.
C16_Witness ==
    /\ lastOp.op = "add_category"
    /\ pre.tag = "Ok"
    /\ inner = pre
    /\ fail = 0
    /\ NamesIn(log, {"addCategory"}) # {}
    /\ env # "none"

\* C17: for a completion record with null data get_result returns Ok(None)
\* whatever the record's requestCode and resultCode are.
C17_NullDataIsOkNone ==
    (PollRan /\ sit.state = "null"
     /\ sit.requestCode \in RequestCodes /\ sit.resultCode \in ResultCodes)
        => (ret.tag = "Ok" /\ ret.val = "None")

====
